---- MODULE Spec2Model ----
(***************************************************************************)
(* The playground router of agno (app/playground/async_router.py): the    *)
(* run, continue-run, team-run and workflow-run handlers, the four async  *)
(* streamers and the legacy workflow generator, driving the Executable    *)
(* Entity (Agent / Team / Workflow) whose run contract the router calls.  *)
(*                                                                         *)
(* The router is translated from the source.  The entity behind           *)
(* agent.arun / agent.acontinue_run / team.arun / workflow.run /          *)
(* workflow.arun is not part of the source tree at hand: its run state    *)
(* machine (created, running, paused, completed, errored) and its resume  *)
(* contract are modelled from the specification, sections 3, 4.2 and 9.   *)
(***************************************************************************)
EXTENDS Integers, Sequences, FiniteSets, TLC

\* ------------------------------------------------------------------ bounds

\* Requests the router serves in one behaviour.
MaxRequests == 2
\* Content events one execution of an entity yields before it ends.
MaxEvents == 1
\* Runs in the history of a stored session that is read back.
MaxStored == 2
\* The clients of the router: each has at most one request in flight, so two
\* of them give every interleaving of two concurrent requests.
Reqs == {"c1", "c2"}
\* A request registers at most one run.
RunIds == 1..MaxRequests

\* The tool-call identifiers of the model: two tell a full resolution from a
\* partial one and from one that names a tool call the run does not wait for.
ToolIds == {"t1", "t2"}

\* Python's None for a run identifier.
NoRun == 0

\* Python's None for a session identifier, and the empty form field.
NoSession == "None"
EmptySession == ""

\* The session identifier a caller names.
GivenSessions == {"s1"}

\* A session identifier other than the one the caller names.
OtherSessions == {"s2"}

\* What a client may send as session_id.
SessionInputs == {NoSession, EmptySession} \cup GivenSessions

\* str(uuid4()) in the hands of the request it was generated for: an
\* identifier no other request and no stored session holds.
NewSession == "uuid4()"

\* The name of a generated identifier once a run is registered under it: it
\* is generated for one request, which registers one run.
Uuid(run_id) == "uuid-" \o ToString(run_id)

Uuids == {Uuid(i) : i \in RunIds}

\* The keys a session can be stored under.
SessionKeys == SessionInputs \cup Uuids

\* The identifiers the registry resolves, one entity of each kind, and an
\* identifier it does not resolve.
AgentIds == {"agent"}
TeamIds == {"team"}
WorkflowIds == {"workflow", "workflow_v2"}
UnknownId == "unknown"

\* The entities handed to get_async_playground_router: the registry.
EntityIds == AgentIds \cup TeamIds \cup WorkflowIds

\* The content types of an uploaded file: one of the image, audio and video
\* types, one of the document types, and a type no branch accepts.
MediaType == "image/png"
DocumentType == "application/pdf"
UnsupportedType == "application/zip"

\* The upload lists of the model: none, a document, an unsupported file
\* alone, after a document and after an image.
Uploads ==
    {<<>>, <<DocumentType>>, <<UnsupportedType>>,
     <<DocumentType, UnsupportedType>>, <<MediaType, UnsupportedType>>}

\* What the tools form field of a continue request may hold: a JSON list of
\* tool executions (objects), text that is not JSON, and a JSON list whose
\* entries are not objects.
ToolList == "[{...}]"
NotJson == "{not json"
StringList == "[\"...\"]"
ToolsTexts == {ToolList, NotJson, StringList}

\* The form fields of a request besides session_id: monitor and files of a
\* run request, the shape of tools of a continue request.
NoForm == [monitor |-> FALSE, files |-> <<>>, tools |-> ToolList]

VARIABLES
    reqs,   \* client -> the handler / generator of its request in flight
    runs,   \* run identifier -> the entity's run (status, transcript, pending)
    served, \* requests the router has taken so far
    store,  \* session key -> the stored session (the session store)
    sid,    \* client -> the session_id the client sends with its requests
    form,   \* client -> the monitor flag, the files and the tools text it sends
    handle  \* entity -> the registered Agent / Team / Workflow object

vars == <<reqs, runs, served, store, sid, form, handle>>

\* ------------------------------------------------------------------ events

\* One run event as the entity or the router builds it.
Event(kind, run_id, session_id, seq, content) ==
    [event |-> kind, run_id |-> run_id, session_id |-> session_id,
     seq |-> seq, content |-> content]

\* RunResponseErrorEvent(content=str(e)): built by the router from the
\* exception text alone, so its run_id and session_id are None and it has
\* no position in the run.
RunResponseErrorEvent(content) == Event("RunError", NoRun, NoSession, 0, content)

\* TeamRunResponseErrorEvent(content=str(e)).
TeamRunResponseErrorEvent(content) ==
    Event("TeamRunError", NoRun, NoSession, 0, content)

\* WorkflowErrorEvent(error=str(e)).
WorkflowErrorEvent(error) == Event("WorkflowError", NoRun, NoSession, 0, error)

\* chunk.to_json(): the wire record of one event.
ToJson(e) == [format |-> "json", data |-> e]

\* run_response.to_dict(): the body of a buffered response.
ToDict(resp) == [format |-> "dict", data |-> resp]

ErrorKinds == {"RunError", "TeamRunError", "WorkflowError"}
TerminalKinds == ErrorKinds \cup {"RunCompleted", "RunPaused"}

\* ------------------------------------------------------------------ entity

Statuses == {"none", "created", "running", "paused", "completed", "errored"}
TerminalStatuses == {"completed", "errored"}

NoneRun ==
    [status |-> "none", entity |-> "none", session |-> NoSession,
     events |-> <<>>, pending |-> {}, resolved |-> {}]

FreeRunIds == {i \in RunIds : runs[i].status = "none"}

\* The identifier the entity gives the next run it registers.
NextRunId == CHOOSE i \in FreeRunIds : \A j \in FreeRunIds : i <= j

\* run(...) called: the run is registered for the entity and its target
\* session, not yet executing.
RegisterRun(rs, id, entity, session_id) ==
    [rs EXCEPT ![id] = [status |-> "created", entity |-> entity,
                        session |-> session_id, events |-> <<>>,
                        pending |-> {}, resolved |-> {}]]

\* The entity starts executing a registered run.
BeginRun(rs, id) == [rs EXCEPT ![id].status = "running"]

\* The next event of a run: its position is its place in the transcript.
NextEvent(rs, id, kind) ==
    Event(kind, id, rs[id].session, Len(rs[id].events) + 1, "")

\* The entity produces one event: it is appended to the run's transcript.
AppendEvent(rs, id, kind) ==
    [rs EXCEPT ![id].events = Append(@, NextEvent(rs, id, kind))]

\* The run ends with no pending work.
CompleteRun(rs, id) ==
    [AppendEvent(rs, id, "RunCompleted") EXCEPT ![id].status = "completed"]

\* The entity proposes the tool calls P and waits for their resolutions.
PauseRun(rs, id, P) ==
    [AppendEvent(rs, id, "RunPaused") EXCEPT ![id].status = "paused",
                                             ![id].pending = P,
                                             ![id].resolved = {}]

\* The entity raises: the run is errored, its transcript is kept as it is.
FailRun(rs, id) == [rs EXCEPT ![id].status = "errored"]

\* The tool-call identifiers a resume request resolves (None: none at all).
ResolutionIds(updated_tools) ==
    IF updated_tools.none THEN {} ELSE updated_tools.ids

\* The run resumes: the resolutions that match a pending tool call are
\* consumed, the others are dropped.
ResumeRun(rs, id, ids) ==
    [rs EXCEPT ![id].status = "running",
               ![id].resolved = rs[id].pending \cap ids,
               ![id].pending = rs[id].pending \ ids]

Rejected(rs, msg) == [ok |-> FALSE, exc |-> msg, runs |-> rs]
Accepted(rs) == [ok |-> TRUE, exc |-> "", runs |-> rs]

\* The resolutions are held against the pending set: a match resumes the
\* run.  On a mismatch the contract (section 4.2) rejects the request; the
\* entity rejects it on some paths and on others accepts the partial update
\* without rejection (section 9), so both outcomes are possible.
CheckResolutions(rs, id, ids) ==
    IF ids = rs[id].pending
    THEN {Accepted(ResumeRun(rs, id, ids))}
    ELSE {Rejected(rs, "invalid-resume"), Accepted(ResumeRun(rs, id, ids))}

\* continueRun(run_id, resolutions): what the entity may answer.  Only a
\* paused run of the agent can be resumed.
AContinueRun(rs, id, updated_tools) ==
    IF id \notin RunIds \/ rs[id].status = "none" \/ rs[id].entity # "agent"
    THEN {Rejected(rs, "run-not-found")}
    ELSE IF rs[id].status # "paused"
    THEN {Rejected(rs, "invalid-resume")}
    ELSE CheckResolutions(rs, id, ResolutionIds(updated_tools))

\* ------------------------------------------------------------------ session store

\* What the store holds under a key no session was stored under.
NoStoredSession ==
    [stored |-> FALSE, entity_id |-> "None", session_name |-> "None",
     memory |-> "None", runs |-> <<>>]

\* readSession(sessionId): the stored session, or not-found.
ReadSession(st, s) == IF s \in DOMAIN st THEN st[s] ELSE NoStoredSession

\* The stored form of a run: its identifier, the team session it is a
\* member's sub-run of (None for a run of its own session), whether it is
\* stored as a run response or as a paused run, and its transcript, which is
\* the first `transcript` events of the run.
StoredRun(rs, id) ==
    [run_id |-> id, team_session_id |-> NoSession,
     format |-> IF rs[id].status = "paused" THEN "RunPaused" ELSE "RunResponse",
     status |-> rs[id].status, transcript |-> Len(rs[id].events),
     messages |-> <<>>]

\* The last writer's run replaces the history of the session.
AppendRunOverwrites(st, s, run) ==
    (s :> [ReadSession(st, s) EXCEPT !.stored = TRUE, !.memory = "runs",
                                     !.runs = <<run>>]) @@ st

\* appendRun(sessionId, Run): the session is created on its first run; a run
\* is appended to the history, and a run already in it (stored when it
\* paused) is brought up to date in place.
AppendRun(st, s, run) ==
    LET h == ReadSession(st, s).runs
        at == {i \in 1..Len(h) : h[i].run_id = run.run_id}
    IN  (s :> [ReadSession(st, s) EXCEPT
                  !.stored = TRUE, !.memory = "runs",
                  !.runs = IF at = {} THEN Append(h, run)
                           ELSE [i \in 1..Len(h) |-> IF i \in at THEN run ELSE h[i]]])
        @@ st

\* The run is persisted into the run history of its session; a session
\* created by it belongs to the run's entity.
PersistRun(st, rs, id) ==
    LET s == rs[id].session
        appended == AppendRun(st, s, StoredRun(rs, id))
    IN  IF ReadSession(st, s).stored THEN appended
        ELSE [appended EXCEPT ![s].entity_id = rs[id].entity]

\* getAllSessions(userId?, entityId?): the sessions of the entity, or every
\* session of the store when no entity is named.
GetAllSessions(st, entity_id) ==
    {s \in DOMAIN st : entity_id = "None" \/ st[s].entity_id = entity_id}

\* renameSession(sessionId, newName): the session is given the name; a
\* session that is not stored is not found and nothing changes.
RenameSession(st, s, name) ==
    IF s \in DOMAIN st THEN [st EXCEPT ![s].session_name = name] ELSE st

\* deleteSession(sessionId): the session is removed; a session that is not
\* stored is not found and nothing changes.
DeleteSession(st, s) == [k \in DOMAIN st \ {s} |-> st[k]]

\* The identifiers of the runs in the stored history of session s.
History(st, s) ==
    [i \in 1..Len(ReadSession(st, s).runs) |-> ReadSession(st, s).runs[i].run_id]

\* No session is stored.
EmptyStore == [s \in {} |-> NoStoredSession]

\* ------------------------------------------------------------------ entity handles

\* An entity as it is handed to the router at process start: it has its
\* identifier and a session store, monitoring is off, no document was
\* loaded into its knowledge base through the router, and it is bound to
\* no session.
Configured(e) ==
    [entity_id |-> e, monitoring |-> FALSE, documents |-> 0,
     storage |-> TRUE, session_id |-> NoSession]

\* agent.knowledge is not None: the agents of the model have a knowledge
\* base.
HasKnowledge(entity) == entity.entity_id \in AgentIds

\* if monitor: agent.monitoring = True else: agent.monitoring = False
SetMonitoring(entity, monitor) == [entity EXCEPT !.monitoring = monitor]

\* One accepted file of an agent run: a document is read and loaded into
\* the agent's knowledge base when the agent has one; it is an input of the
\* run otherwise, as the image, audio and video files are.
LoadFile(agent, content_type) ==
    IF content_type = DocumentType /\ HasKnowledge(agent)
    THEN [agent EXCEPT !.documents = @ + 1]
    ELSE agent

\* for file in files, create_agent_run: the files are taken in order, and
\* the first of an unsupported type raises HTTPException(400).
RECURSIVE LoadFiles(_, _)
LoadFiles(agent, files) ==
    IF files = <<>> THEN [entity |-> agent, unsupported |-> FALSE]
    ELSE IF Head(files) = UnsupportedType
    THEN [entity |-> agent, unsupported |-> TRUE]
    ELSE LoadFiles(LoadFile(agent, Head(files)), Tail(files))

\* for file in files, create_team_run: every accepted file becomes an input
\* of the run, and an unsupported type raises HTTPException(400).
TeamFiles(team, files) ==
    [entity |-> team,
     unsupported |-> \E i \in 1..Len(files) : files[i] = UnsupportedType]

\* The identifiers the registry resolves among ids: an entity is found by
\* the identifier it holds.
Registered(ids) == {e \in ids : handle[e].entity_id = e}

\* ------------------------------------------------------------------ router

\* get_agent_by_id / get_team_by_id / get_workflow_by_id: the entity the
\* identifier resolves to in the registry, or None.
GetEntityById(entity_id, registered) ==
    IF entity_id \in registered THEN entity_id ELSE "None"

\* Every request is given a new session, whatever session it names.
SessionIdAlwaysNew(session_id) == NewSession

\* if session_id is not None and session_id != "": continuing, else
\* session_id = str(uuid4()); also body.session_id or str(uuid4()).
SessionId(session_id) ==
    IF session_id # NoSession /\ session_id # EmptySession
    THEN session_id
    ELSE NewSession

Streamers ==
    {"chat_response_streamer", "agent_acontinue_run_streamer",
     "team_chat_response_streamer", "workflow_response_streamer"}

\* The generator expression of the legacy workflow branch.
GenExpr == "genexpr"

NoResponse == ToDict([run_id |-> NoRun, status |-> "none", events |-> <<>>])

IdleReq ==
    [op |-> "none", entity |-> "none", entity_id |-> "None",
     session_id |-> NoSession, run_return_type |-> "none",
     stream |-> FALSE, streamer |-> "none",
     pc |-> "idle", run |-> NoRun, run_id |-> NoRun,
     updated_tools |-> [none |-> TRUE, ids |-> {}], tools |-> {},
     start |-> 0, n |-> 0, exc |-> "", out |-> <<>>, accepted |-> 0,
     monitoring |-> FALSE, result |-> "none", response |-> NoResponse]

\* Each async streamer wraps the entity call and the iteration in
\* try / except Exception; the generator expression wraps nothing.
Catches(streamer) == streamer \in Streamers

\* The error event a streamer builds from the exception text.
ErrorResponse(streamer, msg) ==
    CASE streamer = "team_chat_response_streamer" -> TeamRunResponseErrorEvent(msg)
      [] streamer = "workflow_response_streamer" -> WorkflowErrorEvent(msg)
      [] OTHER -> RunResponseErrorEvent(msg)

\* json.loads that takes any text for a list.
JsonLoadsLenient(text, ids) == [raised |-> FALSE, text |-> ToolList, ids |-> ids]

\* tools_data = json.loads(tools) if tools else None, in its try: text that
\* is not JSON raises JSONDecodeError; a list is parsed to its entries, the
\* tool-call identifiers ids they name.
JsonLoads(text, ids) ==
    IF text = NotJson
    THEN [raised |-> TRUE, text |-> text, ids |-> {}]
    ELSE [raised |-> FALSE, text |-> text, ids |-> ids]

\* [ToolExecution.from_dict(tool) for tool in tools_data] raises: there is
\* an entry, and the entries are not objects.
FromDictRaises(tools_data) == tools_data.ids # {} /\ tools_data.text = StringList

\* raise HTTPException(status_code=400, ...) of continue_agent_run: the
\* request is answered, the agent was not called.
InvalidTools(r, agent_id, run_id, tools_data) ==
    /\ reqs' = [reqs EXCEPT ![r] =
            [IdleReq EXCEPT !.op = "continue_agent_run", !.entity_id = agent_id,
                            !.run_id = run_id, !.tools = tools_data.ids,
                            !.pc = "done", !.result = "http_400"]]
    /\ UNCHANGED runs

\* The resolutions are lost on their way to the entity.
UpdatedToolsNone(tools_data) == [none |-> TRUE, ids |-> {}]

\* tools_data = json.loads(tools) if tools else None, then
\* updated_tools = [ToolExecution.from_dict(t) ...] if tools_data else None.
UpdatedTools(tools_data) ==
    IF tools_data = {}
    THEN [none |-> TRUE, ids |-> {}]
    ELSE [none |-> FALSE, ids |-> tools_data]

\* The events the entity produced in the execution request rq drives.
Executed(rs, rq) ==
    IF rq.run = NoRun THEN <<>>
    ELSE SubSeq(rs[rq.run].events, rq.start + 1, Len(rs[rq.run].events))

\* The RunResponse a buffered call returns: the run with what it produced.
RunResponse(rs, rq) ==
    [run_id |-> rq.run, status |-> rs[rq.run].status, events |-> Executed(rs, rq)]

\* ------------------------------------------------------------------ handlers

\* A client with no request in flight (none yet, or the last one answered)
\* sends one.
Arrives(r) ==
    /\ reqs[r].pc \in {"idle", "done"}
    /\ served < MaxRequests

\* The request a handler has taken, before the entity is called.
Request(op, entity, stream, streamer) ==
    [IdleReq EXCEPT !.op = op, !.entity = entity, !.stream = stream,
                    !.streamer = streamer, !.pc = "ready"]

\* A generator that hands over a record without having been resumed by the
\* consumer's pull.
YieldUnpulled(rq, record) == [rq EXCEPT !.out = Append(@, record)]

\* yield record: the generator runs only when the consumer pulls, and the
\* consumer pulls once it has taken what it was handed before; then the
\* generator hands it the record and is suspended.
Yield(rq, record) ==
    [rq EXCEPT !.accepted = Len(rq.out), !.out = Append(@, record)]

\* A streamer that iterates over the entity's events and yields none.
DeliverDropped(rq, e) == rq

\* yield run_response_chunk.to_json(): a streaming request delivers the
\* wire record of the event; a buffered call keeps it in the run.
Deliver(rq, e) == IF rq.stream THEN Yield(rq, ToJson(e)) ELSE rq

\* What an unguarded await (agent, team) or the workflow branch's
\* except Exception -> HTTPException(500) hands a buffered caller.
BufferedFault(rq) ==
    IF rq.op = "create_workflow_run" THEN "http_500" ELSE "unhandled_exception"

\* A streamer that yields the error event and goes on iterating.
OnExceptionNoReturn(rq, msg) ==
    IF rq.stream /\ Catches(rq.streamer)
    THEN [Yield(rq, ToJson(ErrorResponse(rq.streamer, msg))) EXCEPT !.exc = msg]
    ELSE IF rq.stream
    THEN [rq EXCEPT !.exc = msg, !.pc = "done", !.result = "stream_broken",
                    !.accepted = Len(rq.out)]
    ELSE [rq EXCEPT !.exc = msg, !.pc = "done", !.result = BufferedFault(rq)]

\* The entity raised msg while request rq was driving it.  A streamer
\* catches it, yields one error event and returns; the generator
\* expression lets it break the stream; a buffered call lets it out.
OnException(rq, msg) ==
    IF rq.stream /\ Catches(rq.streamer)
    THEN [Yield(rq, ToJson(ErrorResponse(rq.streamer, msg)))
          EXCEPT !.exc = msg, !.pc = "drained"]
    ELSE IF rq.stream
    THEN [rq EXCEPT !.exc = msg, !.pc = "done", !.result = "stream_broken",
                    !.accepted = Len(rq.out)]
    ELSE [rq EXCEPT !.exc = msg, !.pc = "done", !.result = BufferedFault(rq)]

\* After the entity's last event: the generator has one more pull to end
\* on; a buffered call returns run_response.to_dict().
OnTerminal(rs, rq) ==
    IF rq.stream
    THEN [rq EXCEPT !.pc = "drained"]
    ELSE [rq EXCEPT !.pc = "done", !.result = "response",
                    !.response = ToDict(RunResponse(rs, rq))]

\* The session_id argument of the entity call that registers run id: the
\* handler's session_id, and for the other workflow class
\* body.session_id or str(uuid4()).
SessionArg(rq, id) ==
    LET session_id == IF rq.entity = "workflow_v2"
                      THEN SessionId(rq.session_id)
                      ELSE rq.session_id
    IN  IF session_id = NewSession THEN Uuid(id) ELSE session_id

\* agent.arun / team.arun / workflow.run / workflow.arun is called.
CallRun(r, rq) ==
    LET id == NextRunId IN
    /\ runs' = RegisterRun(runs, id, rq.entity, SessionArg(rq, id))
    /\ reqs' = [reqs EXCEPT ![r] =
            [rq EXCEPT !.run = id, !.pc = "called",
                       !.monitoring = handle'[rq.entity_id].monitoring]]

\* The run named in the path is run anew instead of continued.
CallContinueRestart(r, rq) ==
    /\ runs' = RegisterRun(runs, rq.run_id, "agent", rq.session_id)
    /\ reqs' = [reqs EXCEPT ![r] = [rq EXCEPT !.run = rq.run_id, !.pc = "called"]]

\* agent.acontinue_run(run_id=run_id, updated_tools=updated_tools, ...).
CallContinue(r, rq) ==
    \E res \in AContinueRun(runs, rq.run_id, rq.updated_tools) :
        /\ runs' = res.runs
        /\ reqs' = [reqs EXCEPT ![r] =
                IF res.ok
                THEN [rq EXCEPT !.run = rq.run_id, !.pc = "running",
                                !.start = Len(runs[rq.run_id].events)]
                ELSE OnException(rq, res.exc)]

\* A handler's last statement: return StreamingResponse(generator), whose
\* body runs on the consumer's first pull, or await the entity call.
Dispatch(r, rq) ==
    IF rq.stream
    THEN reqs' = [reqs EXCEPT ![r] = rq] /\ UNCHANGED runs
    ELSE IF rq.op = "continue_agent_run" THEN CallContinue(r, rq)
    ELSE CallRun(r, rq)

\* The lookup comes after the entity call: a run is registered and then the
\* request is answered 404.
NotFoundAfterCall(r, op, entity_id) ==
    /\ reqs' = [reqs EXCEPT ![r] =
            [IdleReq EXCEPT !.op = op, !.entity_id = entity_id,
                            !.pc = "done", !.result = "http_404"]]
    /\ runs' = RegisterRun(runs, NextRunId, "none", NewSession)

\* raise HTTPException(status_code=404, ...) right after the lookup: the
\* request is answered, nothing else has happened.
NotFound(r, op, entity_id) ==
    /\ reqs' = [reqs EXCEPT ![r] =
            [IdleReq EXCEPT !.op = op, !.entity_id = entity_id,
                            !.pc = "done", !.result = "http_404"]]
    /\ UNCHANGED runs

\* raise HTTPException(status_code=400, detail="Unsupported file type")
BadRequest(r, op, entity_id) ==
    /\ reqs' = [reqs EXCEPT ![r] =
            [IdleReq EXCEPT !.op = op, !.entity_id = entity_id,
                            !.pc = "done", !.result = "http_400"]]
    /\ UNCHANGED runs

\* POST /agents/{agent_id}/runs: the lookup, the session_id, the monitor
\* flag set on the agent, the files, then the streamer or the awaited call.
CreateAgentRun(r) ==
    /\ Arrives(r)
    /\ served' = served + 1
    /\ UNCHANGED <<store, sid, form>>
    /\ \E agent_id \in AgentIds \cup {UnknownId}, stream \in BOOLEAN :
        IF GetEntityById(agent_id, Registered(AgentIds)) = "None"
        THEN NotFound(r, "create_agent_run", agent_id) /\ UNCHANGED handle
        ELSE LET upload == LoadFiles(SetMonitoring(handle[agent_id], form[r].monitor),
                                     form[r].files)
             IN  /\ handle' = [handle EXCEPT ![agent_id] = upload.entity]
                 /\ IF upload.unsupported
                    THEN BadRequest(r, "create_agent_run", agent_id)
                    ELSE Dispatch(r, [Request("create_agent_run", "agent", stream,
                                              IF stream THEN "chat_response_streamer"
                                              ELSE "none")
                                      EXCEPT !.entity_id = agent_id,
                                             !.session_id = SessionId(sid[r])])

\* POST /agents/{agent_id}/runs/{run_id}/continue
ContinueAgentRun(r) ==
    /\ Arrives(r)
    /\ served' = served + 1
    /\ UNCHANGED <<store, sid, form, handle>>
    /\ \E agent_id \in AgentIds \cup {UnknownId}, run_id \in RunIds,
          ids \in SUBSET ToolIds, stream \in BOOLEAN :
        LET tools_data == JsonLoads(form[r].tools, ids) IN
        IF tools_data.raised
        THEN InvalidTools(r, agent_id, run_id, tools_data)
        ELSE IF GetEntityById(agent_id, Registered(AgentIds)) = "None"
        THEN NotFound(r, "continue_agent_run", agent_id)
        ELSE IF FromDictRaises(tools_data)
        THEN InvalidTools(r, agent_id, run_id, tools_data)
        ELSE Dispatch(r, [Request("continue_agent_run", "agent", stream,
                                  IF stream THEN "agent_acontinue_run_streamer" ELSE "none")
                          EXCEPT !.entity_id = agent_id, !.session_id = sid[r],
                                 !.run_id = run_id, !.tools = tools_data.ids,
                                 !.updated_tools = UpdatedTools(tools_data.ids)])

\* POST /teams/{team_id}/runs: as for the agent, with the team's files.
CreateTeamRun(r) ==
    /\ Arrives(r)
    /\ served' = served + 1
    /\ UNCHANGED <<store, sid, form>>
    /\ \E team_id \in TeamIds \cup {UnknownId}, stream \in BOOLEAN :
        IF GetEntityById(team_id, Registered(TeamIds)) = "None"
        THEN NotFound(r, "create_team_run", team_id) /\ UNCHANGED handle
        ELSE LET upload == TeamFiles(SetMonitoring(handle[team_id], form[r].monitor),
                                     form[r].files)
             IN  /\ handle' = [handle EXCEPT ![team_id] = upload.entity]
                 /\ IF upload.unsupported
                    THEN BadRequest(r, "create_team_run", team_id)
                    ELSE Dispatch(r, [Request("create_team_run", "team", stream,
                                              IF stream THEN "team_chat_response_streamer"
                                              ELSE "none")
                                      EXCEPT !.entity_id = team_id,
                                             !.session_id = SessionId(sid[r])])

\* POST /workflows/{workflow_id}/runs, isinstance(workflow, Workflow): the
\* copy is given body.session_id as it is; its _run_return_type decides;
\* run(**body.input) is called in the handler, and a generator it returns is
\* wrapped in a generator expression.
CreateWorkflowRunLegacy(r) ==
    /\ Arrives(r)
    /\ served' = served + 1
    /\ UNCHANGED <<store, sid, form, handle>>
    /\ \E workflow_id \in {"workflow", UnknownId},
          run_return_type \in {"RunResponse", "Iterator"} :
        IF GetEntityById(workflow_id, Registered(WorkflowIds)) = "None"
        THEN NotFound(r, "create_workflow_run", workflow_id)
        ELSE CallRun(r, [Request("create_workflow_run", "workflow",
                                 run_return_type # "RunResponse",
                                 IF run_return_type = "RunResponse" THEN "none" ELSE GenExpr)
                         EXCEPT !.entity_id = workflow_id, !.session_id = sid[r],
                                !.run_return_type = run_return_type])

\* POST /workflows/{workflow_id}/runs, the other workflow class: body.stream
\* decides between workflow_response_streamer and await workflow.arun.
CreateWorkflowRunV2(r) ==
    /\ Arrives(r)
    /\ served' = served + 1
    /\ UNCHANGED <<store, sid, form, handle>>
    /\ \E workflow_id \in {"workflow_v2", UnknownId}, stream \in BOOLEAN :
        IF GetEntityById(workflow_id, Registered(WorkflowIds)) = "None"
        THEN NotFound(r, "create_workflow_run", workflow_id)
        ELSE Dispatch(r, [Request("create_workflow_run", "workflow_v2", stream,
                                  IF stream THEN "workflow_response_streamer" ELSE "none")
                          EXCEPT !.entity_id = workflow_id, !.session_id = sid[r]])

\* The consumer's first pull runs the streamer up to the entity call.
StreamerStart(r) ==
    /\ UNCHANGED <<served, store, sid, form, handle>>
    /\ reqs[r].pc = "ready"
    /\ IF reqs[r].op = "continue_agent_run"
       THEN CallContinue(r, reqs[r])
       ELSE CallRun(r, reqs[r])

\* ------------------------------------------------------------------ execution

\* The entity starts executing the run the request registered.
EntityBegin(r) ==
    /\ UNCHANGED <<served, store, sid, form, handle>>
    /\ reqs[r].pc = "called"
    /\ runs' = BeginRun(runs, reqs[r].run)
    /\ reqs' = [reqs EXCEPT ![r].pc = "running"]

\* async for chunk in run_response: the entity yields a content event.
EntityYield(r) ==
    LET rq == reqs[r] IN
    /\ UNCHANGED <<served, store, sid, form, handle>>
    /\ rq.pc = "running"
    /\ rq.n < MaxEvents
    /\ runs' = AppendEvent(runs, rq.run, "RunResponseContent")
    /\ reqs' = [reqs EXCEPT ![r] =
            [Deliver(rq, NextEvent(runs, rq.run, "RunResponseContent"))
             EXCEPT !.n = rq.n + 1]]

\* The entity ends the run: its last event is the completion, and the run
\* is persisted into its session.
EntityComplete(r) ==
    LET rq == reqs[r] IN
    /\ UNCHANGED <<served, sid, form, handle>>
    /\ rq.pc = "running"
    /\ runs' = CompleteRun(runs, rq.run)
    /\ store' = PersistRun(store, runs', rq.run)
    /\ reqs' = [reqs EXCEPT ![r] =
            OnTerminal(runs', Deliver(rq, NextEvent(runs, rq.run, "RunCompleted")))]

\* The agent proposes tool calls and pauses: its last event is the pause,
\* and the paused run is persisted into its session.
EntityPause(r) ==
    LET rq == reqs[r] IN
    /\ UNCHANGED <<served, sid, form, handle>>
    /\ rq.pc = "running"
    /\ rq.entity = "agent"
    /\ \E P \in (SUBSET ToolIds) \ {{}} :
        /\ runs' = PauseRun(runs, rq.run, P)
        /\ store' = PersistRun(store, runs', rq.run)
        /\ reqs' = [reqs EXCEPT ![r] =
                OnTerminal(runs', Deliver(rq, NextEvent(runs, rq.run, "RunPaused")))]

\* The entity raises during the run; the errored run is persisted with the
\* transcript it has.
EntityRaise(r) ==
    LET rq == reqs[r] IN
    /\ UNCHANGED <<served, sid, form, handle>>
    /\ rq.pc = "running"
    /\ runs' = FailRun(runs, rq.run)
    /\ store' = PersistRun(store, runs', rq.run)
    /\ reqs' = [reqs EXCEPT ![r] = OnException(rq, "execution-error")]

\* The generator is pulled after its last item and does not return.
StreamerEndStaysOpen(r) ==
    /\ reqs[r].pc = "drained"
    /\ reqs' = [reqs EXCEPT ![r].accepted = Len(reqs[r].out)]
    /\ UNCHANGED <<runs, served, store, sid, form, handle>>

\* The pull after the last item: the generator returns, the stream ends.
StreamerEnd(r) ==
    /\ reqs[r].pc = "drained"
    /\ reqs' = [reqs EXCEPT ![r].pc = "done", ![r].result = "stream_end",
                            ![r].accepted = Len(reqs[r].out)]
    /\ UNCHANGED <<runs, served, store, sid, form, handle>>

\* agent.set_agent_id(): an agent without an identifier is given a
\* generated one, here the name of its handle.
SetAgentId(agent, e) ==
    IF agent.entity_id = "None" THEN [agent EXCEPT !.entity_id = e] ELSE agent

\* GET /agents: every agent handed to the router is listed, and one whose
\* agent_id is None is given an identifier on the way.
GetAgents(r) ==
    /\ Arrives(r)
    /\ served' = served + 1
    /\ UNCHANGED <<runs, store, sid, form>>
    /\ handle' = [e \in EntityIds |->
                    IF e \in AgentIds THEN SetAgentId(handle[e], e) ELSE handle[e]]
    /\ reqs' = [reqs EXCEPT ![r] =
            [IdleReq EXCEPT !.op = "get_agents", !.pc = "done", !.result = "response",
                            !.response = ToDict([agents |->
                                {handle'[e].entity_id : e \in AgentIds}])]]

\* ------------------------------------------------------------------ session reads

\* status_code=404, "... does not have storage enabled"
StorageDisabled == "http_404_storage_not_enabled"

\* status_code=404, "Session not found"
SessionNotFound == "http_404_session_not_found"

\* The session identifiers named in the path of a session operation.
ManagedSessions == GivenSessions \cup OtherSessions

\* The answer of a session operation, which ends with the handler.
Answer(op, entity_id, session_id, result, body) ==
    [IdleReq EXCEPT !.op = op, !.entity = entity_id, !.entity_id = entity_id,
                    !.session_id = session_id, !.pc = "done",
                    !.result = result, !.response = body]

\* storage.read(session_id, user_id) raised.
ReadError == "storage.read"

\* first_run = runs[0] on an empty list.
IndexError == "IndexError: list index out of range"

\* Python's None for a message.
NoMessage == [role |-> "None", from_history |-> FALSE]

\* The first message of the run with role user that is not from the history.
FirstUserMessage(run) ==
    LET at == {i \in 1..Len(run.messages) :
                  run.messages[i].role = "user" /\ ~run.messages[i].from_history}
    IN  IF at = {} THEN NoMessage
        ELSE run.messages[CHOOSE i \in at : \A j \in at : i <= j]

\* "content" in first_run or first_run.get("is_paused", False) or
\* first_run.get("event") == "RunPaused"
IsRunResponse(first_run) == first_run.format \in {"RunResponse", "RunPaused"}

\* if run.get("team_session_id") is not None and
\*    run.get("team_session_id") == session_id: continue
Skipped(run, session_id) ==
    run.team_session_id # NoSession /\ run.team_session_id = session_id

\* The runs the loop of get_team_session goes on with.
TeamRunsShown(stored_runs, session_id) ==
    SelectSeq(stored_runs, LAMBDA run : ~Skipped(run, session_id))

\* {"message": first_user_message, "response": run} for each run shown.
Entries(shown) ==
    [i \in 1..Len(shown) |-> [message |-> FirstUserMessage(shown[i]),
                              response |-> shown[i]]]

\* team_session.to_dict() as the handler returns it: memory is popped when
\* an entry is appended, and "runs" is set when the stored runs are run
\* responses.
TeamSessionDict(session, session_id) ==
    LET rewritten == session.memory = "runs" /\ IsRunResponse(session.runs[1])
        entries == IF rewritten
                   THEN Entries(TeamRunsShown(session.runs, session_id))
                   ELSE <<>>
    IN  [session_id |-> session_id,
         memory |-> IF entries # <<>> THEN "popped" ELSE session.memory,
         has_runs |-> rewritten,
         runs |-> entries]

\* What get_team_session answers for a team the registry resolves:
\* storage.read raising is answered 500, no session 404, and
\* first_run = runs[0] on an empty run list raises IndexError.
ReadTeamSession(session, session_id, read_raises) ==
    IF read_raises
    THEN [result |-> "http_500", exc |-> ReadError, body |-> NoResponse]
    ELSE IF ~session.stored
    THEN [result |-> SessionNotFound, exc |-> "", body |-> NoResponse]
    ELSE IF session.memory = "runs" /\ session.runs = <<>>
    THEN [result |-> "unhandled_exception", exc |-> IndexError,
          body |-> NoResponse]
    ELSE [result |-> "response", exc |-> "",
          body |-> ToDict(TeamSessionDict(session, session_id))]

\* GET /teams/{team_id}/sessions/{session_id}
GetTeamSession(r) ==
    /\ Arrives(r)
    /\ served' = served + 1
    /\ UNCHANGED <<runs, store, sid, form, handle>>
    /\ \E team_id \in TeamIds \cup {UnknownId},
          session_id \in GivenSessions \cup OtherSessions,
          read_raises \in BOOLEAN :
        IF GetEntityById(team_id, Registered(TeamIds)) = "None"
        THEN NotFound(r, "get_team_session", team_id)
        ELSE IF ~handle[team_id].storage
        THEN reqs' = [reqs EXCEPT ![r] =
                Answer("get_team_session", team_id, session_id,
                       StorageDisabled, NoResponse)]
        ELSE LET answer == ReadTeamSession(ReadSession(store, session_id),
                                           session_id, read_raises)
             IN  reqs' = [reqs EXCEPT ![r] =
                    [IdleReq EXCEPT !.op = "get_team_session", !.entity = "team",
                                    !.entity_id = team_id,
                                    !.session_id = session_id, !.pc = "done",
                                    !.result = answer.result,
                                    !.exc = answer.exc,
                                    !.response = answer.body]]

\* run.pop("memory", None): the run without its memory entry, when it has
\* one.
PopMemoryKept(run) == run

PopMemory(run) == [k \in DOMAIN run \ {"memory"} |-> run[k]]

\* {"message": first_user_message, "response": run} for every stored run,
\* the memory removed from the run.
AgentEntries(stored_runs) ==
    [i \in 1..Len(stored_runs) |->
        [message |-> FirstUserMessage(stored_runs[i]),
         response |-> PopMemory(stored_runs[i])]]

\* agent_session.to_dict() as get_agent_session returns it: "runs" is set
\* when the stored runs are run responses, with an entry for every run.
AgentSessionDict(session, session_id) ==
    LET rewritten == session.memory = "runs" /\ IsRunResponse(session.runs[1])
    IN  [session_id |-> session_id, memory |-> session.memory,
         has_runs |-> rewritten,
         runs |-> IF rewritten THEN AgentEntries(session.runs) ELSE <<>>]

\* What get_agent_session answers for an agent with a store: nothing
\* catches storage.read raising, no session is answered 404, and
\* first_run = runs[0] on an empty run list raises IndexError.
ReadAgentSession(session, session_id, read_raises) ==
    IF read_raises
    THEN [result |-> "unhandled_exception", exc |-> ReadError,
          body |-> NoResponse]
    ELSE IF ~session.stored
    THEN [result |-> SessionNotFound, exc |-> "", body |-> NoResponse]
    ELSE IF session.memory = "runs" /\ session.runs = <<>>
    THEN [result |-> "unhandled_exception", exc |-> IndexError,
          body |-> NoResponse]
    ELSE [result |-> "response", exc |-> "",
          body |-> ToDict(AgentSessionDict(session, session_id))]

\* What get_workflow_session answers for a workflow with a store:
\* storage.read raising is answered 500, no session 404, and a session is
\* returned as it is stored (its dict has a memory entry).
ReadWorkflowSession(session, session_id, read_raises) ==
    IF read_raises THEN [result |-> "http_500", body |-> NoResponse]
    ELSE IF ~session.stored THEN [result |-> SessionNotFound, body |-> NoResponse]
    ELSE [result |-> "response",
          body |-> ToDict([session_id |-> session_id, memory |-> session.memory,
                           has_runs |-> FALSE, runs |-> <<>>])]

\* GET /agents/{agent_id}/sessions/{session_id}
GetAgentSession(r) ==
    /\ Arrives(r)
    /\ served' = served + 1
    /\ UNCHANGED <<runs, store, sid, form, handle>>
    /\ \E agent_id \in AgentIds \cup {UnknownId}, session_id \in ManagedSessions,
          read_raises \in BOOLEAN :
        IF GetEntityById(agent_id, Registered(AgentIds)) = "None"
        THEN NotFound(r, "get_agent_session", agent_id)
        ELSE IF ~handle[agent_id].storage
        THEN reqs' = [reqs EXCEPT ![r] =
                Answer("get_agent_session", agent_id, session_id,
                       StorageDisabled, NoResponse)]
        ELSE LET answer == ReadAgentSession(ReadSession(store, session_id),
                                            session_id, read_raises)
             IN  reqs' = [reqs EXCEPT ![r] =
                    [Answer("get_agent_session", agent_id, session_id,
                            answer.result, answer.body)
                        EXCEPT !.exc = answer.exc]]

\* GET /workflows/{workflow_id}/sessions/{session_id}
GetWorkflowSession(r) ==
    /\ Arrives(r)
    /\ served' = served + 1
    /\ UNCHANGED <<runs, store, sid, form, handle>>
    /\ \E workflow_id \in WorkflowIds \cup {UnknownId},
          session_id \in ManagedSessions, read_raises \in BOOLEAN :
        IF GetEntityById(workflow_id, Registered(WorkflowIds)) = "None"
        THEN NotFound(r, "get_workflow_session", workflow_id)
        ELSE IF ~handle[workflow_id].storage
        THEN reqs' = [reqs EXCEPT ![r] =
                Answer("get_workflow_session", workflow_id, session_id,
                       StorageDisabled, NoResponse)]
        ELSE LET answer == ReadWorkflowSession(ReadSession(store, session_id),
                                               session_id, read_raises)
             IN  reqs' = [reqs EXCEPT ![r] =
                    Answer("get_workflow_session", workflow_id, session_id,
                           answer.result, answer.body)]

\* The body of a session listing: the sessions found.
SessionList(sessions) == ToDict([sessions |-> sessions])

\* What a listing answers for a registered entity: 404 without a store,
\* 500 when get_all_sessions raises and the handler catches it, and the
\* sessions of the entity otherwise.
ListSessions(op, entity_id, list_raises, caught) ==
    IF ~handle[entity_id].storage
    THEN Answer(op, entity_id, NoSession, StorageDisabled, NoResponse)
    ELSE IF list_raises
    THEN Answer(op, entity_id, NoSession,
                IF caught THEN "http_500" ELSE "unhandled_exception", NoResponse)
    ELSE Answer(op, entity_id, NoSession, "response",
                SessionList(GetAllSessions(store, entity_id)))

\* GET /agents/{agent_id}/sessions
GetAllAgentSessions(r) ==
    /\ Arrives(r)
    /\ served' = served + 1
    /\ UNCHANGED <<runs, store, sid, form, handle>>
    /\ \E agent_id \in AgentIds \cup {UnknownId}, list_raises \in BOOLEAN :
        IF GetEntityById(agent_id, Registered(AgentIds)) = "None"
        THEN NotFound(r, "get_all_agent_sessions", agent_id)
        ELSE reqs' = [reqs EXCEPT ![r] =
                ListSessions("get_all_agent_sessions", agent_id, list_raises, FALSE)]

\* GET /workflows/{workflow_id}/sessions
GetAllWorkflowSessions(r) ==
    /\ Arrives(r)
    /\ served' = served + 1
    /\ UNCHANGED <<runs, store, sid, form, handle>>
    /\ \E workflow_id \in WorkflowIds \cup {UnknownId}, list_raises \in BOOLEAN :
        IF GetEntityById(workflow_id, Registered(WorkflowIds)) = "None"
        THEN NotFound(r, "get_all_workflow_sessions", workflow_id)
        ELSE reqs' = [reqs EXCEPT ![r] =
                ListSessions("get_all_workflow_sessions", workflow_id, list_raises, TRUE)]

\* GET /teams/{team_id}/sessions
GetAllTeamSessions(r) ==
    /\ Arrives(r)
    /\ served' = served + 1
    /\ UNCHANGED <<runs, store, sid, form, handle>>
    /\ \E team_id \in TeamIds \cup {UnknownId}, list_raises \in BOOLEAN :
        IF GetEntityById(team_id, Registered(TeamIds)) = "None"
        THEN NotFound(r, "get_all_team_sessions", team_id)
        ELSE reqs' = [reqs EXCEPT ![r] =
                ListSessions("get_all_team_sessions", team_id, list_raises, TRUE)]

\* ------------------------------------------------------------------ session management

\* The name a rename request gives.
NewName == "renamed"

\* {"message": "successfully renamed / deleted ..."}
Message(text) == ToDict([message |-> text])

\* entity.rename_session(name, session_id): the entity renames the session
\* in its store, when it has one.
EntityRenameSession(st, entity, session_id, name) ==
    IF entity.storage THEN RenameSession(st, session_id, name) ELSE st

\* entity.delete_session(session_id): the entity deletes the session from
\* its store, when it has one.
EntityDeleteSession(st, entity, session_id) ==
    IF entity.storage THEN DeleteSession(st, session_id) ELSE st

\* A rename or delete of an agent or a team, once the entity is found: 404
\* without a store; the session is looked for among `found`, the sessions
\* get_all_sessions returned, and the operation is made on a match.
ManageSession(r, op, entity_id, session_id, found, changed, text) ==
    IF ~handle[entity_id].storage
    THEN /\ reqs' = [reqs EXCEPT ![r] =
                Answer(op, entity_id, session_id, StorageDisabled, NoResponse)]
         /\ UNCHANGED store
    ELSE IF session_id \in found
    THEN /\ store' = changed
         /\ reqs' = [reqs EXCEPT ![r] =
                Answer(op, entity_id, session_id, "response", Message(text))]
    ELSE /\ reqs' = [reqs EXCEPT ![r] =
                Answer(op, entity_id, session_id, SessionNotFound, NoResponse)]
         /\ UNCHANGED store

\* POST /agents/{agent_id}/sessions/{session_id}/rename: the sessions are
\* listed for the user alone, with no entity_id.
RenameAgentSession(r) ==
    /\ Arrives(r)
    /\ served' = served + 1
    /\ UNCHANGED <<runs, sid, form, handle>>
    /\ \E agent_id \in AgentIds \cup {UnknownId}, session_id \in ManagedSessions :
        IF GetEntityById(agent_id, Registered(AgentIds)) = "None"
        THEN NotFound(r, "rename_agent_session", agent_id) /\ UNCHANGED store
        ELSE ManageSession(r, "rename_agent_session", agent_id, session_id,
                GetAllSessions(store, "None"),
                EntityRenameSession(store, handle[agent_id], session_id, NewName),
                "successfully renamed session")

\* DELETE /agents/{agent_id}/sessions/{session_id}
DeleteAgentSession(r) ==
    /\ Arrives(r)
    /\ served' = served + 1
    /\ UNCHANGED <<runs, sid, form, handle>>
    /\ \E agent_id \in AgentIds \cup {UnknownId}, session_id \in ManagedSessions :
        IF GetEntityById(agent_id, Registered(AgentIds)) = "None"
        THEN NotFound(r, "delete_agent_session", agent_id) /\ UNCHANGED store
        ELSE ManageSession(r, "delete_agent_session", agent_id, session_id,
                GetAllSessions(store, agent_id),
                EntityDeleteSession(store, handle[agent_id], session_id),
                "successfully deleted session")

\* POST /teams/{team_id}/sessions/{session_id}/rename
RenameTeamSession(r) ==
    /\ Arrives(r)
    /\ served' = served + 1
    /\ UNCHANGED <<runs, sid, form, handle>>
    /\ \E team_id \in TeamIds \cup {UnknownId}, session_id \in ManagedSessions :
        IF GetEntityById(team_id, Registered(TeamIds)) = "None"
        THEN NotFound(r, "rename_team_session", team_id) /\ UNCHANGED store
        ELSE ManageSession(r, "rename_team_session", team_id, session_id,
                GetAllSessions(store, team_id),
                EntityRenameSession(store, handle[team_id], session_id, NewName),
                "successfully renamed team session")

\* DELETE /teams/{team_id}/sessions/{session_id}
DeleteTeamSession(r) ==
    /\ Arrives(r)
    /\ served' = served + 1
    /\ UNCHANGED <<runs, sid, form, handle>>
    /\ \E team_id \in TeamIds \cup {UnknownId}, session_id \in ManagedSessions :
        IF GetEntityById(team_id, Registered(TeamIds)) = "None"
        THEN NotFound(r, "delete_team_session", team_id) /\ UNCHANGED store
        ELSE ManageSession(r, "delete_team_session", team_id, session_id,
                GetAllSessions(store, team_id),
                EntityDeleteSession(store, handle[team_id], session_id),
                "successfully deleted team session")

\* POST /workflows/{workflow_id}/sessions/{session_id}/rename: after the
\* lookup, workflow.session_id = session_id on the registered workflow,
\* workflow.rename_session(body.name), and the success message.
RenameWorkflowSession(r) ==
    /\ Arrives(r)
    /\ served' = served + 1
    /\ UNCHANGED <<runs, sid, form>>
    /\ \E workflow_id \in WorkflowIds \cup {UnknownId},
          session_id \in ManagedSessions :
        IF GetEntityById(workflow_id, Registered(WorkflowIds)) = "None"
        THEN NotFound(r, "rename_workflow_session", workflow_id)
             /\ UNCHANGED <<store, handle>>
        ELSE /\ handle' = [handle EXCEPT ![workflow_id].session_id = session_id]
             /\ store' = EntityRenameSession(store, handle'[workflow_id],
                                             handle'[workflow_id].session_id, NewName)
             /\ reqs' = [reqs EXCEPT ![r] =
                    Answer("rename_workflow_session", workflow_id, session_id,
                           "response", Message("successfully renamed workflow"))]

\* DELETE /workflows/{workflow_id}/sessions/{session_id}: after the lookup,
\* workflow.delete_session(session_id), and the success message.
DeleteWorkflowSession(r) ==
    /\ Arrives(r)
    /\ served' = served + 1
    /\ UNCHANGED <<runs, sid, form, handle>>
    /\ \E workflow_id \in WorkflowIds \cup {UnknownId},
          session_id \in ManagedSessions :
        IF GetEntityById(workflow_id, Registered(WorkflowIds)) = "None"
        THEN NotFound(r, "delete_workflow_session", workflow_id) /\ UNCHANGED store
        ELSE /\ store' = EntityDeleteSession(store, handle[workflow_id], session_id)
             /\ reqs' = [reqs EXCEPT ![r] =
                    Answer("delete_workflow_session", workflow_id, session_id,
                           "response", Message("successfully deleted workflow"))]

\* The consumer goes away and what the run produced is dropped with it.
DisconnectDropsRun(r) ==
    LET rq == reqs[r] IN
    /\ rq.stream
    /\ rq.pc \in {"ready", "called", "running", "drained"}
    /\ reqs' = [reqs EXCEPT ![r] = [rq EXCEPT !.pc = "done", !.result = "disconnected"]]
    /\ UNCHANGED <<runs, served, store, sid, form, handle>>

\* The consumer of a stream goes away (cancellation, disconnect): the
\* generator is closed where it is suspended and the entity is driven no
\* further; the engine persists the run with the transcript produced so far.
Disconnect(r) ==
    LET rq == reqs[r] IN
    /\ rq.stream
    /\ rq.pc \in {"ready", "called", "running", "drained"}
    /\ reqs' = [reqs EXCEPT ![r] = [rq EXCEPT !.pc = "done", !.result = "disconnected"]]
    /\ store' = IF rq.run = NoRun THEN store ELSE PersistRun(store, runs, rq.run)
    /\ UNCHANGED <<runs, served, sid, form, handle>>

\* ------------------------------------------------------------------ system

Init ==
    /\ reqs = [r \in Reqs |-> IdleReq]
    /\ runs = [i \in RunIds |-> NoneRun]
    /\ served = 0
    /\ store = EmptyStore
    /\ sid = [r \in Reqs |-> NoSession]
    /\ form = [r \in Reqs |-> NoForm]
    /\ handle = [e \in EntityIds |-> Configured(e)]

Step(r) ==
    \/ CreateAgentRun(r)
    \/ ContinueAgentRun(r)
    \/ CreateTeamRun(r)
    \/ CreateWorkflowRunLegacy(r)
    \/ CreateWorkflowRunV2(r)
    \/ StreamerStart(r)
    \/ EntityBegin(r)
    \/ EntityYield(r)
    \/ EntityComplete(r)
    \/ EntityPause(r)
    \/ EntityRaise(r)
    \/ StreamerEnd(r)

Next == \E r \in Reqs : Step(r)

Spec == Init /\ [][Next]_vars

\* The event loop keeps running every task that can run, and the consumer of
\* a stream keeps pulling.
FairSpec == Spec /\ \A r \in Reqs : WF_vars(Step(r))

\* One client alone: its requests are served one after the other.
SerialNext == Step("c1")

SerialFairSpec == Init /\ [][SerialNext]_vars /\ WF_vars(SerialNext)

\* One client names the session of its requests; the other names the same
\* session or none.  They run the agent and the team, and a consumer may
\* leave its stream.
InitSessions ==
    /\ reqs = [r \in Reqs |-> IdleReq]
    /\ runs = [i \in RunIds |-> NoneRun]
    /\ served = 0
    /\ store = EmptyStore
    /\ sid \in {f \in [Reqs -> {NoSession} \cup GivenSessions] :
                    f["c1"] \in GivenSessions}
    /\ form = [r \in Reqs |-> NoForm]
    /\ handle = [e \in EntityIds |-> Configured(e)]

SessionStep(r) ==
    \/ CreateAgentRun(r)
    \/ CreateTeamRun(r)
    \/ StreamerStart(r)
    \/ EntityBegin(r)
    \/ EntityYield(r)
    \/ EntityComplete(r)
    \/ EntityPause(r)
    \/ EntityRaise(r)
    \/ StreamerEnd(r)
    \/ Disconnect(r)

SessionNext == \E r \in Reqs : SessionStep(r)

SessionSpec == InitSessions /\ [][SessionNext]_vars

\* One client sends any session_id with its requests, one request after the
\* other, to every route.
InitDispatcher ==
    /\ reqs = [r \in Reqs |-> IdleReq]
    /\ runs = [i \in RunIds |-> NoneRun]
    /\ served = 0
    /\ store = EmptyStore
    /\ sid \in {f \in [Reqs -> SessionInputs] : f["c2"] = NoSession}
    /\ form = [r \in Reqs |-> NoForm]
    /\ handle = [e \in EntityIds |-> Configured(e)]

DispatcherNext == Step("c1") \/ GetTeamSession("c1")

DispatcherSpec == InitDispatcher /\ [][DispatcherNext]_vars

\* Each client sends its monitor flag with its run requests; one of them
\* also uploads files.  They run the agent and the team.
InitHandles ==
    /\ reqs = [r \in Reqs |-> IdleReq]
    /\ runs = [i \in RunIds |-> NoneRun]
    /\ served = 0
    /\ store = EmptyStore
    /\ sid = [r \in Reqs |-> NoSession]
    /\ form \in {f \in [Reqs -> [monitor : BOOLEAN, files : Uploads,
                                  tools : {ToolList}]] :
                    f["c2"].files = <<>>}
    /\ handle = [e \in EntityIds |-> Configured(e)]

HandleStep(r) ==
    \/ CreateAgentRun(r)
    \/ CreateTeamRun(r)
    \/ StreamerStart(r)
    \/ EntityBegin(r)
    \/ EntityYield(r)
    \/ EntityComplete(r)
    \/ StreamerEnd(r)

HandleNext == \E r \in Reqs : HandleStep(r)

HandleSpec == InitHandles /\ [][HandleNext]_vars

\* A client starts runs of the agent, which pause, and a client continues
\* them with any tools text.
InitTools ==
    /\ reqs = [r \in Reqs |-> IdleReq]
    /\ runs = [i \in RunIds |-> NoneRun]
    /\ served = 0
    /\ store = EmptyStore
    /\ sid = [r \in Reqs |-> NoSession]
    /\ form \in {f \in [Reqs -> [monitor : {FALSE}, files : {<<>>},
                                  tools : ToolsTexts]] :
                    f["c1"].tools = ToolList}
    /\ handle = [e \in EntityIds |-> Configured(e)]

ToolsNext ==
    \/ CreateAgentRun("c1")
    \/ ContinueAgentRun("c2")
    \/ \E r \in Reqs :
        \/ StreamerStart(r)
        \/ EntityBegin(r)
        \/ EntityYield(r)
        \/ EntityPause(r)
        \/ EntityComplete(r)
        \/ StreamerEnd(r)

ToolsSpec == InitTools /\ [][ToolsNext]_vars

\* An agent that keeps its sessions in the same store and is not among the
\* entities the requests of the model address.
OtherAgent == "agent-2"

\* The entities a stored session may belong to.
Owners == EntityIds \cup {OtherAgent}

\* A stored session of entity owner, with one run in its history.
OwnedSession(owner) ==
    [NoStoredSession EXCEPT
        !.stored = TRUE, !.entity_id = owner, !.memory = "runs",
        !.runs = <<[run_id |-> NoRun, team_session_id |-> NoSession,
                    format |-> "RunResponse", status |-> "completed",
                    transcript |-> 0, messages |-> <<>>]>>]

\* Each entity has a session store or none; the store holds one session
\* under the identifier the caller names, of any owner, or it holds none.
InitManage ==
    /\ reqs = [r \in Reqs |-> IdleReq]
    /\ runs = [i \in RunIds |-> NoneRun]
    /\ served = 0
    /\ sid = [r \in Reqs |-> NoSession]
    /\ form = [r \in Reqs |-> NoForm]
    /\ handle \in {[e \in EntityIds |-> [Configured(e) EXCEPT !.storage = f[e]]] :
                      f \in [EntityIds -> BOOLEAN]}
    /\ store \in {EmptyStore}
                \cup {(s :> OwnedSession(o)) : s \in GivenSessions, o \in Owners}

\* One client lists, reads, renames and deletes sessions through every
\* entity kind, one request after the other.
ManageNext ==
    \/ GetAllAgentSessions("c1")
    \/ GetAgentSession("c1")
    \/ RenameAgentSession("c1")
    \/ DeleteAgentSession("c1")
    \/ GetAllWorkflowSessions("c1")
    \/ GetWorkflowSession("c1")
    \/ RenameWorkflowSession("c1")
    \/ DeleteWorkflowSession("c1")
    \/ GetAllTeamSessions("c1")
    \/ GetTeamSession("c1")
    \/ RenameTeamSession("c1")
    \/ DeleteTeamSession("c1")

ManageSpec == InitManage /\ [][ManageNext]_vars

\* One client runs the workflows, on a session it names or on none, and
\* renames and deletes workflow sessions.
InitWorkflows ==
    /\ reqs = [r \in Reqs |-> IdleReq]
    /\ runs = [i \in RunIds |-> NoneRun]
    /\ served = 0
    /\ store = EmptyStore
    /\ sid \in {f \in [Reqs -> {NoSession} \cup GivenSessions] : f["c2"] = NoSession}
    /\ form = [r \in Reqs |-> NoForm]
    /\ handle = [e \in EntityIds |-> Configured(e)]

WorkflowNext ==
    \/ CreateWorkflowRunLegacy("c1")
    \/ CreateWorkflowRunV2("c1")
    \/ RenameWorkflowSession("c1")
    \/ DeleteWorkflowSession("c1")
    \/ StreamerStart("c1")
    \/ EntityBegin("c1")
    \/ EntityYield("c1")
    \/ EntityComplete("c1")
    \/ EntityRaise("c1")
    \/ StreamerEnd("c1")

WorkflowSpec == InitWorkflows /\ [][WorkflowNext]_vars

\* The agents are handed to the router with their identifier set or not
\* set; one client lists the agents and sends run requests.
InitRegistry ==
    /\ reqs = [r \in Reqs |-> IdleReq]
    /\ runs = [i \in RunIds |-> NoneRun]
    /\ served = 0
    /\ store = EmptyStore
    /\ sid = [r \in Reqs |-> NoSession]
    /\ form = [r \in Reqs |-> NoForm]
    /\ handle \in {[e \in EntityIds |->
                        IF e \in unnamed
                        THEN [Configured(e) EXCEPT !.entity_id = "None"]
                        ELSE Configured(e)] : unnamed \in SUBSET AgentIds}

RegistryNext == GetAgents("c1") \/ Step("c1")

RegistrySpec == InitRegistry /\ [][RegistryNext]_vars

\* The messages a stored run may hold.
MessageLists ==
    {<<>>,
     <<[role |-> "user", from_history |-> TRUE],
       [role |-> "user", from_history |-> FALSE]>>}

\* The runs a stored team session may hold: run responses, paused runs and
\* entries of another format, of the team's own (no team_session_id) or
\* tagged with the session read or with another one.
StoredTeamRuns ==
    [run_id : {NoRun}, team_session_id : {NoSession} \cup GivenSessions \cup OtherSessions,
     format : {"RunResponse", "RunPaused", "other"},
     status : {"completed"}, transcript : {0}, messages : MessageLists]

\* The sequences over S of length n.
SeqsOf(S, n) == [1..n -> S]

\* The sessions the store may hold: without memory, with a memory that has
\* no run list, and with a run list of up to MaxStored runs.
StoredSessions ==
    {[NoStoredSession EXCEPT !.stored = TRUE, !.entity_id = "team", !.memory = m] :
        m \in {"None", "no_runs"}}
    \cup {[NoStoredSession EXCEPT !.stored = TRUE, !.entity_id = "team",
                                 !.memory = "runs", !.runs = h] :
            h \in UNION {SeqsOf(StoredTeamRuns, n) : n \in 0..MaxStored}}

\* The store holds one session under the identifier the caller names, with
\* any stored content, or it holds none.
InitStored ==
    /\ reqs = [r \in Reqs |-> IdleReq]
    /\ runs = [i \in RunIds |-> NoneRun]
    /\ served = 0
    /\ sid = [r \in Reqs |-> NoSession]
    /\ form = [r \in Reqs |-> NoForm]
    /\ handle = [e \in EntityIds |-> Configured(e)]
    /\ store \in {EmptyStore}
                \cup {(s :> session) : s \in GivenSessions, session \in StoredSessions}

\* The sessions are read back.
ReadNext == GetTeamSession("c1")

ReadSpec == InitStored /\ [][ReadNext]_vars

\* The runs a stored agent session may hold: run responses, paused runs and
\* entries of another format, each with or without a memory entry.
StoredAgentRuns ==
    [run_id : {NoRun}, team_session_id : {NoSession},
     format : {"RunResponse", "RunPaused", "other"},
     status : {"completed"}, transcript : {0}, messages : MessageLists]
    \cup [run_id : {NoRun}, team_session_id : {NoSession},
          format : {"RunResponse", "RunPaused", "other"},
          status : {"completed"}, transcript : {0}, messages : MessageLists,
          memory : {"memory"}]

\* The sessions an agent's store may hold: without memory, with a memory
\* that has no run list, and with a run list of up to MaxStored runs.
StoredAgentSessions ==
    {[NoStoredSession EXCEPT !.stored = TRUE, !.entity_id = "agent", !.memory = m] :
        m \in {"None", "no_runs"}}
    \cup {[NoStoredSession EXCEPT !.stored = TRUE, !.entity_id = "agent",
                                 !.memory = "runs", !.runs = h] :
            h \in UNION {SeqsOf(StoredAgentRuns, n) : n \in 0..MaxStored}}

\* The store holds one agent or team session under the identifier the
\* caller names, with any stored content, or it holds none.
InitDisplay ==
    /\ reqs = [r \in Reqs |-> IdleReq]
    /\ runs = [i \in RunIds |-> NoneRun]
    /\ served = 0
    /\ sid = [r \in Reqs |-> NoSession]
    /\ form = [r \in Reqs |-> NoForm]
    /\ handle = [e \in EntityIds |-> Configured(e)]
    /\ store \in {EmptyStore}
                \cup {(s :> session) :
                        s \in GivenSessions,
                        session \in StoredSessions \cup StoredAgentSessions}

\* The sessions are read back through the agent and the team route.
DisplayNext == GetAgentSession("c1") \/ GetTeamSession("c1")

DisplaySpec == InitDisplay /\ [][DisplayNext]_vars

\* ------------------------------------------------------------------ observations

Finished(r) == reqs[r].pc = "done"

Last(seq) == seq[Len(seq)]

\* An event without the identifier of the run it belongs to.
Shape(e) == [event |-> e.event, content |-> e.content]

Shapes(events) == [i \in 1..Len(events) |-> Shape(events[i])]

\* The events the entity produced while request r drove it: its content
\* events and, unless it raised, its last event.
ExecutedBy(r) ==
    LET rq == reqs[r]
        ended == rq.pc \in {"drained", "done"} /\ rq.exc = ""
    IN  IF rq.run = NoRun THEN <<>>
        ELSE SubSeq(runs[rq.run].events, rq.start + 1,
                    rq.start + rq.n + (IF ended THEN 1 ELSE 0))

\* What the entity did for request r: the events it produced, and whether
\* it raised.
Behaviour(r) == [events |-> Shapes(ExecutedBy(r)), raised |-> reqs[r].exc # ""]

\* The records a streaming caller decoded.
Decoded(r) == [i \in 1..Len(reqs[r].out) |-> reqs[r].out[i].data]

\* What the caller of request r holds: whether it got a well-formed answer,
\* and the transcript in it.
Observed(r) ==
    IF reqs[r].stream
    THEN [received |-> reqs[r].result = "stream_end", transcript |-> Shapes(Decoded(r))]
    ELSE IF reqs[r].result = "response"
    THEN [received |-> TRUE, transcript |-> Shapes(reqs[r].response.data.events)]
    ELSE [received |-> FALSE, transcript |-> <<>>]

\* In this step client r's continue request reaches acontinue_run.
CallsContinue(r) ==
    /\ reqs'[r].op = "continue_agent_run"
    /\ reqs'[r].entity_id \in AgentIds
    /\ \/ reqs[r].pc \in {"idle", "done"} /\ ~reqs'[r].stream
       \/ reqs[r].pc = "ready"
    /\ reqs'[r].pc \in {"running", "drained", "done"}
    /\ reqs'[r] # reqs[r]

\* ------------------------------------------------------------------ claims

\* C1 (mode-equivalence): whenever a streaming request and a buffered
\* request of the same operation on the same kind of entity have finished
\* and the entity behaved the same for both (same events, raised or not),
\* the transcript the streaming caller decoded equals the transcript in the
\* buffered caller's Response.
ModeEquivalence ==
    \A a, b \in Reqs :
        ( /\ Finished(a) /\ Finished(b)
          /\ reqs[a].stream /\ ~reqs[b].stream
          /\ reqs[a].op = reqs[b].op
          /\ reqs[a].entity = reqs[b].entity
          /\ reqs[a].op # "continue_agent_run"
          /\ reqs[a].entity # "workflow"
          /\ Behaviour(a) = Behaviour(b) )
        => Observed(a) = Observed(b)

\* A continue request of client r that resolved exactly the pending tool
\* calls of its run and was taken up: the run consumed all of them.
ResumedFull(r, id) ==
    /\ reqs[r].op = "continue_agent_run"
    /\ reqs[r].pc \in {"running", "drained", "done"}
    /\ reqs[r].run = id
    /\ reqs[r].tools # {}
    /\ runs[id].resolved = reqs[r].tools
    /\ runs[id].pending = {}

\* C2: a continue request that resolves exactly the pending tool calls of a
\* paused run moves the run to running in the step that reaches the entity,
\* and a run resumed that way eventually is completed, errored or paused
\* again.
FullResumeReachesTerminal ==
    /\ [][\A r \in Reqs :
            ( /\ CallsContinue(r)
              /\ runs[reqs'[r].run_id].status = "paused"
              /\ reqs'[r].tools = runs[reqs'[r].run_id].pending )
            => /\ runs'[reqs'[r].run_id].status = "running"
               /\ reqs'[r].pc = "running"]_vars
    /\ \A id \in RunIds :
        (\E r \in Reqs : ResumedFull(r, id) /\ runs[id].status = "running")
            ~> (runs[id].status \in {"completed", "errored", "paused"})

\* C2 witness: a fully resolved resume has been served to its end and the
\* run it resumed is completed or errored.
FullResumeServed ==
    \E r \in Reqs, id \in RunIds :
        /\ ResumedFull(r, id)
        /\ Finished(r)
        /\ runs[id].status \in TerminalStatuses

\* C3: a continue request that resolves only a proper subset of the pending
\* tool calls of a paused run (none at all included) fails with
\* invalid-resume and leaves the run as it was: paused, same transcript,
\* same pending set.
PartialResumeRejected ==
    [][\A r \in Reqs :
        ( /\ CallsContinue(r)
          /\ runs[reqs'[r].run_id].status = "paused"
          /\ reqs'[r].tools \subseteq runs[reqs'[r].run_id].pending
          /\ reqs'[r].tools # runs[reqs'[r].run_id].pending )
        => /\ reqs'[r].exc = "invalid-resume"
           /\ runs'[reqs'[r].run_id] = runs[reqs'[r].run_id]]_vars

\* C4: a continue request that resolves a tool call the agent's run is not
\* waiting for is rejected with invalid-resume and the run does not proceed.
UnknownResolutionRejected ==
    [][\A r \in Reqs :
        ( /\ CallsContinue(r)
          /\ runs[reqs'[r].run_id].entity = "agent"
          /\ ~(reqs'[r].tools \subseteq runs[reqs'[r].run_id].pending) )
        => /\ reqs'[r].exc = "invalid-resume"
           /\ runs'[reqs'[r].run_id] = runs[reqs'[r].run_id]]_vars

\* C5: a streaming request whose entity raised ends as a closed stream whose
\* last record is an error event carrying the exception text; the stream is
\* never broken by the exception.
StreamNeverBroken ==
    \A r \in Reqs :
        (Finished(r) /\ reqs[r].stream /\ reqs[r].exc # "")
        => /\ reqs[r].result = "stream_end"
           /\ reqs[r].out # <<>>
           /\ Last(reqs[r].out).data.event \in ErrorKinds
           /\ Last(reqs[r].out).data.content = reqs[r].exc

\* C6: a buffered request whose entity raised during the run (or the resumed
\* run) is answered with a Response whose status indicates the failure,
\* never with a fault.
BufferedFailureIsResponse ==
    \A r \in Reqs :
        (Finished(r) /\ ~reqs[r].stream /\ reqs[r].run # NoRun /\ reqs[r].exc # "")
        => /\ reqs[r].result = "response"
           /\ reqs[r].response.data.status = "errored"

\* C7: when a request has driven its run to errored, the transcript its
\* caller holds ends with an error event, and before it stand exactly the
\* events the entity produced, unchanged and in place.
ErroredRunEndsWithError ==
    \A r \in Reqs :
        (Finished(r) /\ reqs[r].run # NoRun /\ reqs[r].exc = "execution-error")
        => LET t == Observed(r).transcript IN
           /\ t # <<>>
           /\ Last(t).event \in ErrorKinds
           /\ SubSeq(t, 1, Len(t) - 1) = Shapes(ExecutedBy(r))

\* C8: in every stream, at every moment, the entity's events stand in
\* strictly increasing order and no record follows a terminal event (error,
\* completed or paused).
TerminalEventIsLast ==
    \A r \in Reqs :
        LET d == Decoded(r) IN
        /\ \A i \in 1..Len(d) : i < Len(d) => d[i].event \notin TerminalKinds
        /\ \A i, j \in 1..Len(d) :
            (i < j /\ d[i].seq > 0 /\ d[j].seq > 0) => d[i].seq < d[j].seq

\* C8 witness: a stream of at least two records has ended on a terminal
\* event.
StreamEndedOnTerminal ==
    \E r \in Reqs :
        /\ Finished(r) /\ reqs[r].stream
        /\ Len(reqs[r].out) >= 2
        /\ Last(reqs[r].out).data.event \in TerminalKinds

StatusChanges ==
    {<<"none", "created">>, <<"created", "running">>,
     <<"running", "completed">>, <<"running", "errored">>, <<"running", "paused">>,
     <<"paused", "running">>}

PausedRunFrozen ==
    [][\A id \in RunIds :
        (runs[id].status = "paused" /\ runs'[id] # runs[id])
        => \E r \in Reqs :
            /\ CallsContinue(r)
            /\ reqs'[r].run_id = id
            /\ runs[id].pending \subseteq reqs'[r].tools]_vars

\* The positions of run id in the stored history of session s.
StoredAt(s, id) ==
    {i \in 1..Len(ReadSession(store, s).runs) :
        ReadSession(store, s).runs[i].run_id = id}

\* Sequence a is sequence b or the beginning of it.
IsPrefix(a, b) == Len(a) <= Len(b) /\ a = SubSeq(b, 1, Len(a))

\* C11: a run requested on a named session runs on that session; a run is
\* in the stored history of its session from the step it ends in
\* (completed, errored or paused); and a stored history only ever grows at
\* its end, whatever the runs of other sessions do meanwhile.  So of two
\* sequential runs on a session the history holds both, the earlier before
\* the later, and no run is lost or overwritten.
SessionHistoryKeepsRuns ==
    /\ [](\A r \in Reqs :
            (reqs[r].run # NoRun /\ sid[r] \in GivenSessions)
            => runs[reqs[r].run].session = sid[r])
    /\ [](\A id \in RunIds :
            runs[id].status \in {"completed", "errored", "paused"}
            => StoredAt(runs[id].session, id) # {})
    /\ [][\A s \in DOMAIN store :
            ReadSession(store', s) # store[s]
            => IsPrefix(History(store, s), History(store', s))]_vars

\* C11 witness: two runs, the second requested by the client that names the
\* session, have ended and stand in the history of that session in creation
\* order.
TwoSequentialRunsStored ==
    \E s \in GivenSessions :
        /\ History(store, s) = <<1, 2>>
        /\ runs[1].status \in TerminalStatuses
        /\ runs[2].status \in TerminalStatuses
        /\ reqs["c1"].run = 2 /\ sid["c1"] = s

SubRunOfOtherSession(run, session_id) ==
    run.team_session_id # NoSession /\ run.team_session_id # session_id

\* C13: the transcript get_team_session builds for session s holds, in
\* stored order, exactly the stored runs that are not sub-runs of another
\* session: every run tagged with a session identifier other than s is
\* left out, and every run of s itself is in it.
TeamTranscriptOfParentSession ==
    \A r \in Reqs :
        ( /\ Finished(r) /\ reqs[r].op = "get_team_session"
          /\ reqs[r].result = "response"
          /\ reqs[r].response.data.has_runs )
        => LET entries == reqs[r].response.data.runs
               stored == ReadSession(store, reqs[r].session_id).runs
           IN  [i \in 1..Len(entries) |-> entries[i].response]
               = SelectSeq(stored,
                           LAMBDA run : ~SubRunOfOtherSession(run, reqs[r].session_id))

\* In this step the router takes a request of client r.
Taken(r) == reqs[r].pc \in {"idle", "done"} /\ reqs'[r] # reqs[r]

SessionNewOrContinued ==
    \A r \in Reqs :
        (reqs[r].run # NoRun /\ reqs[r].op # "continue_agent_run")
        => LET id == reqs[r].run IN
           IF sid[r] \in {NoSession, EmptySession}
           THEN /\ runs[id].session \in Uuids
                /\ \A j \in RunIds \ {id} : runs[j].session # runs[id].session
           ELSE runs[id].session = sid[r]

\* A request the router dispatched to an entity and answered.
Answered(r) == Finished(r) /\ reqs[r].entity_id \in AgentIds \cup TeamIds \cup WorkflowIds

\* C16: an agent run, an agent continue-run, a team run and a run of the
\* other workflow class are answered by what the stream flag asks for:
\* with stream=true an event stream that was delivered to its end, with
\* stream=false one Response.
ModeFromStreamFlag ==
    \A r \in Reqs :
        ( /\ Answered(r)
          /\ reqs[r].op \in {"create_agent_run", "continue_agent_run",
                              "create_team_run", "create_workflow_run"}
          /\ reqs[r].entity # "workflow" )
        => IF reqs[r].stream
           THEN reqs[r].result = "stream_end" /\ reqs[r].streamer \in Streamers
           ELSE reqs[r].result = "response" /\ reqs[r].out = <<>>

\* C17: a workflow of the Workflow class is answered by what its declared
\* return type asks for: one buffered Response when it is RunResponse
\* (single-shot), an event stream delivered to its end otherwise
\* (step-streaming).
WorkflowModeFromReturnType ==
    \A r \in Reqs :
        (Answered(r) /\ reqs[r].entity = "workflow")
        => IF reqs[r].run_return_type = "RunResponse"
           THEN reqs[r].result = "response" /\ reqs[r].out = <<>>
           ELSE reqs[r].result = "stream_end"

StreamIsLazyFiniteOnce ==
    /\ [](\A r \in Reqs :
            (reqs[r].stream /\ reqs[r].pc = "ready")
            => reqs[r].run = NoRun /\ reqs[r].out = <<>>)
    /\ \A r \in Reqs :
            (reqs[r].stream /\ reqs[r].pc = "drained") ~> Finished(r)
    /\ [][\A r \in Reqs :
            (Finished(r) /\ reqs[r].stream)
            => reqs'[r].out \in {reqs[r].out, <<>>}]_vars

\* C20 witness: the stream of an entity that raised has ended, its error
\* record the last item.
StreamOfRaisedRunEnded ==
    \E r \in Reqs :
        /\ Finished(r) /\ reqs[r].stream
        /\ reqs[r].exc = "execution-error"
        /\ reqs[r].result = "stream_end"

\* The kinds of the records a stream carries.
EventKinds == {"RunResponseContent"} \cup TerminalKinds

\* C25: every record delivered on a stream, the error record included,
\* carries its kind, the run_id of the run its request drives and the
\* session_id of that run.
WireRecordsNameRunAndSession ==
    \A r \in Reqs :
        \A i \in 1..Len(reqs[r].out) :
            LET record == reqs[r].out[i].data IN
            /\ record.event \in EventKinds
            /\ reqs[r].run # NoRun
            /\ record.run_id = reqs[r].run
            /\ record.session_id = runs[reqs[r].run].session

\* C27: at every moment the stream of one of the four streamers is the
\* encodings of the events its entity has produced for it, in order, with
\* no other record; and once the entity has raised, it is those encodings
\* followed by exactly one error record of the streamer's kind whose
\* content is the exception text.
StreamerForwardsOneToOne ==
    \A r \in Reqs :
        (reqs[r].stream /\ Catches(reqs[r].streamer))
        => IF reqs[r].exc = ""
           THEN reqs[r].out = [i \in 1..Len(ExecutedBy(r)) |-> ToJson(ExecutedBy(r)[i])]
           ELSE /\ Len(reqs[r].out) = Len(ExecutedBy(r)) + 1
                /\ \A i \in 1..Len(ExecutedBy(r)) :
                        reqs[r].out[i] = ToJson(ExecutedBy(r)[i])
                /\ Last(reqs[r].out).format = "json"
                /\ Last(reqs[r].out).data.event \in ErrorKinds
                /\ Last(reqs[r].out).data.event =
                        ErrorResponse(reqs[r].streamer, "").event
                /\ Last(reqs[r].out).data.content = reqs[r].exc

\* C27 witness: one stream has ended after its entity's two events, both
\* forwarded, and another after one event and the error record of a raise.
CleanAndRaisedStreamsEnded ==
    \E r1, r2 \in Reqs :
        /\ Finished(r1) /\ reqs[r1].stream /\ Catches(reqs[r1].streamer)
        /\ reqs[r1].exc = "" /\ Len(reqs[r1].out) = 2
        /\ Finished(r2) /\ reqs[r2].stream /\ Catches(reqs[r2].streamer)
        /\ reqs[r2].exc = "execution-error" /\ Len(reqs[r2].out) = 2
        /\ reqs[r2].out[1].data.event = "RunResponseContent"

\* Request r has been dispatched to its entity, whose run has not ended.
InFlight(r) == reqs[r].pc \in {"ready", "called", "running"}

\* C21: runs in flight together are different runs, each on the session of
\* its own request; and while a request is in flight on an entity, no step
\* of another request changes that entity's handle.
SharedHandleLeftToRunsInFlight ==
    /\ [](\A r1, r2 \in Reqs :
            (r1 # r2 /\ InFlight(r1) /\ InFlight(r2)
             /\ reqs[r1].run # NoRun /\ reqs[r2].run # NoRun)
            => /\ reqs[r1].run # reqs[r2].run
               /\ runs[reqs[r1].run].session = SessionArg(reqs[r1], reqs[r1].run))
    /\ [][\A r \in Reqs :
            (InFlight(r) /\ reqs'[r] = reqs[r])
            => handle'[reqs[r].entity_id] = handle[reqs[r].entity_id]]_vars

\* C28: when the entity call of an agent or team run starts, the entity's
\* monitoring flag is the monitor flag of the request that starts the run.
RunStartsWithRequestedMonitoring ==
    \A r \in Reqs :
        (reqs[r].op \in {"create_agent_run", "create_team_run"}
         /\ reqs[r].run # NoRun)
        => reqs[r].monitoring = form[r].monitor

\* In this step the router takes a request and rejects it for an
\* unsupported file.
RejectsUnsupported ==
    /\ served' # served
    /\ \E r \in Reqs :
        /\ reqs[r].pc \in {"idle", "done"}
        /\ reqs'[r].result = "http_400"
        /\ \A q \in Reqs \ {r} : reqs'[q] = reqs[q]

\* C29: a step that rejects a run request for an unsupported file registers
\* no run and leaves every entity (monitoring flag, knowledge base) as it
\* was.
UnsupportedInputChangesNothing ==
    [][RejectsUnsupported => (runs' = runs /\ handle' = handle)]_vars

RenameDeleteOps ==
    {"rename_agent_session", "delete_agent_session",
     "rename_team_session", "delete_team_session",
     "rename_workflow_session", "delete_workflow_session"}

SessionOps ==
    RenameDeleteOps
    \cup {"get_all_agent_sessions", "get_agent_session",
          "get_all_team_sessions", "get_team_session",
          "get_all_workflow_sessions", "get_workflow_session"}

\* In this step the router takes a request of client r for one of the
\* operations ops on an entity the registry resolves.
TakesOp(r, ops) ==
    /\ reqs[r].pc \in {"idle", "done"}
    /\ served' # served
    /\ reqs'[r].op \in ops
    /\ reqs'[r].entity_id \in EntityIds

\* C22: a stored session keeps its owner; and a rename or delete issued
\* through an entity with a store, on a stored session of another entity,
\* is answered session-not-found and leaves the store as it was.
SessionOpsRespectOwner ==
    /\ [][\A s \in DOMAIN store \cap DOMAIN store' :
            store'[s].entity_id = store[s].entity_id]_vars
    /\ [][\A r \in Reqs :
            ( /\ TakesOp(r, RenameDeleteOps)
              /\ handle[reqs'[r].entity_id].storage
              /\ reqs'[r].session_id \in DOMAIN store
              /\ store[reqs'[r].session_id].entity_id # reqs'[r].entity_id )
            => /\ reqs'[r].result = SessionNotFound
               /\ store' = store]_vars

\* C23: a list, read, rename or delete issued through an entity that has no
\* session store is answered storage-unavailable, with no session content,
\* and leaves the store as it was.
NoStorageRejected ==
    [][\A r \in Reqs :
        (TakesOp(r, SessionOps) /\ ~handle[reqs'[r].entity_id].storage)
        => /\ reqs'[r].result = StorageDisabled
           /\ reqs'[r].response = NoResponse
           /\ store' = store]_vars

\* C24: a rename or delete issued through an entity with a store is
\* answered success or session-not-found; for a session that is not stored
\* it is answered session-not-found and the store is left as it was.
RenameDeleteOkOrNotFound ==
    [][\A r \in Reqs :
        (TakesOp(r, RenameDeleteOps) /\ handle[reqs'[r].entity_id].storage)
        => /\ reqs'[r].result \in {"response", SessionNotFound}
           /\ reqs'[r].session_id \notin DOMAIN store
              => (reqs'[r].result = SessionNotFound /\ store' = store)
           /\ reqs'[r].result = "response"
              => reqs'[r].session_id \in DOMAIN store]_vars

\* C26: no step changes which identifiers the registry resolves.
RegistryFixed ==
    [][Registered(EntityIds)' = Registered(EntityIds)]_vars

\* C30: the registered workflows are as they were at process start.
WorkflowHandleUnchanged ==
    \A w \in WorkflowIds : handle[w] = Configured(w)

\* The routes that read one agent or team session.
SessionReads == {"get_agent_session", "get_team_session"}

\* Request r is a read of a session the store holds, through an entity the
\* registry resolves whose store is enabled, and the store's read returned.
ReadOfStoredSession(r) ==
    /\ Finished(r)
    /\ reqs[r].op \in SessionReads
    /\ reqs[r].entity_id \in Registered(EntityIds)
    /\ handle[reqs[r].entity_id].storage
    /\ ReadSession(store, reqs[r].session_id).stored
    /\ reqs[r].exc # ReadError

\* C31: a read of an existing stored agent or team session is answered with
\* the session and never faults, whatever the stored history is: no memory,
\* a memory without a run list, an empty run list or a run list with runs.
StoredSessionReadReturnsSession ==
    \A r \in Reqs : ReadOfStoredSession(r) => reqs[r].result = "response"

\* The positions of the user messages of the run that are not from the
\* history.
OwnUserMessages(run) ==
    {j \in 1..Len(run.messages) :
        run.messages[j].role = "user" /\ ~run.messages[j].from_history}

\* C32: get_agent_session, for a session whose stored runs are run
\* responses or paused runs, answers a transcript with one entry for every
\* stored run, in stored order; the entry's message is the first user
\* message of the run that is not from the history, or none, and its
\* response is the run without its memory entry.
AgentTranscriptOnePerRun ==
    \A r \in Reqs :
        LET stored == ReadSession(store, reqs[r].session_id).runs
        IN  ( /\ ReadOfStoredSession(r)
              /\ reqs[r].op = "get_agent_session"
              /\ ReadSession(store, reqs[r].session_id).memory = "runs"
              /\ stored # <<>>
              /\ \A i \in 1..Len(stored) :
                    stored[i].format \in {"RunResponse", "RunPaused"} )
            => /\ reqs[r].result = "response"
               /\ reqs[r].response.data.has_runs
               /\ Len(reqs[r].response.data.runs) = Len(stored)
               /\ \A i \in 1..Len(stored) :
                    LET entry == reqs[r].response.data.runs[i]
                        own == OwnUserMessages(stored[i])
                    IN  /\ DOMAIN entry.response = DOMAIN stored[i] \ {"memory"}
                        /\ \A k \in DOMAIN entry.response :
                                entry.response[k] = stored[i][k]
                        /\ IF own = {} THEN entry.message = NoMessage
                           ELSE \E j \in own :
                                    /\ \A k \in own : j <= k
                                    /\ entry.message = stored[i].messages[j]

\* C32 witness: an agent session of two stored runs, a run response and a
\* paused run, both with a memory entry and one with a user message from
\* the history before its own, has been read.
AgentSessionOfTwoRunsRead ==
    \E r \in Reqs :
        LET stored == ReadSession(store, reqs[r].session_id).runs
        IN  /\ ReadOfStoredSession(r)
            /\ reqs[r].op = "get_agent_session"
            /\ reqs[r].result = "response"
            /\ Len(stored) = 2
            /\ stored[1].format = "RunResponse"
            /\ stored[2].format = "RunPaused"
            /\ \A i \in 1..2 : "memory" \in DOMAIN stored[i]
            /\ \E j \in OwnUserMessages(stored[1]) : j > 1

====
